---------------------------- MODULE Spec2Model ----------------------------
(***************************************************************************)
(* Perimeter placement engine of FotoRamkaSticker.                         *)
(*                                                                         *)
(*   src/sticker_frame_gui.py      StickerFrameGenerator, GenerationThread *)
(*   src/algorithms/*.py           BaseAlgorithm and its three variants    *)
(*                                                                         *)
(* Pixels are integers.  A rectangle is <<left, top, right, bottom>>, a    *)
(* point <<x, y>>, a size <<w, h>>.  A density is a number of hundredths   *)
(* (the settings panel sets sticker_density = slider / 100.0).             *)
(***************************************************************************)
EXTENDS Integers, Sequences, FiniteSets

VARIABLES
    \* ---- one StickerFrameGenerator run (Spec) ----
    cfg,                  \* FrameConfig read by the generator
    fs,                   \* the image files found in config.sticker_dir
    pc,                   \* position of the worker thread
    loaded_stickers,      \* self.loaded_stickers: sizes of the decoded sources
    inner_rect,           \* self.inner_rect, <<>> (None) until the zone is computed
    perimeter_positions,  \* self.perimeter_positions
    placed_stickers,      \* generate's local placed_stickers
    attempt,              \* generate's loop variable: outer iterations completed
    sub,                  \* position draws made in the current outer iteration
    cur,                  \* the sticker drawn by the current outer iteration
    found,                \* generate's local found
    canvas,               \* TRUE once Image.new has created the result canvas
    result,               \* what generate returned: "unset", "None", "image", "raised"
    result_size,          \* the size of the returned image
    signal,               \* the signal GenerationThread.run emitted
    \* ---- pure functions applied to enumerated inputs ----
    rect1, rect2,         \* arguments of _rectangles_overlap
    ov12, ov21,           \* its results on (rect1, rect2) and (rect2, rect1)
    v_sticker, v_placed,  \* arguments of is_position_valid
    v_result,             \* its result
    \* ---- generate_positions of the four variants, one append site per step ----
    alg,                  \* AlgorithmType of the instance
    gen_pc,               \* "idle", "call", "loop", "done" or "raised"
    gen_loop,             \* the loop generate_positions is in (index in Loops)
    gen_i,                \* steps of that loop completed
    emitted,              \* what the latest step appended: <<>> or <<entry>>
    n_positions,          \* len(positions), counted by SpecCount only
    \* ---- more of the generate run ----
    layers,               \* the stickers alpha_composite drew on the canvas, in order
    last_k,               \* list index the inner loop in progress drew last, 0: none yet
    probe,                \* the path its latest pass took: the density test, the validator
    \* ---- the window around the worker thread (SpecApp) ----
    run_cfg,              \* the value of the FrameConfig when the thread was started
    changes,              \* settings-change events handled so far
    runs,                 \* worker threads started so far
    first_run,            \* <<outcome>> of the first run finished with the settings
                          \* untouched, <<>> before
    btn_enabled,          \* generate_btn.isEnabled()
    others,               \* threads started while an earlier one was still running
    save_enabled,         \* save_btn.isEnabled()
    current_image,        \* TRUE once self.current_image holds an image
    handled,              \* the handler run for the followed thread: "none" before it
    \* ---- get_gradient_density applied to enumerated inputs (SpecDensity) ----
    d_pos, d_weight       \* its argument and its result, in thousandths

genVars   == <<cfg, fs, pc, loaded_stickers, inner_rect, perimeter_positions,
               placed_stickers, attempt, sub, cur, found, canvas, result,
               result_size, signal>>
rectVars  == <<rect1, rect2, ov12, ov21>>
validVars == <<v_sticker, v_placed, v_result>>
posVars   == <<alg, gen_pc, gen_loop, gen_i, emitted>>
appVars   == <<run_cfg, changes, runs, first_run, btn_enabled, others,
               save_enabled, current_image, handled>>
densVars  == <<d_pos, d_weight>>
extVars   == <<n_positions, appVars, densVars>>
vars      == <<genVars, rectVars, validVars, posVars, layers, last_k, probe, extVars>>

None == "None"
\* self.inner_rect = None, which `not self.inner_rect` tests
NoRect == <<>>
NoSticker == [size |-> <<0, 0>>, position |-> <<0, 0>>, rotation |-> 0, opacity |-> 100]
\* no pass of the inner loop made yet
NoProbe == [roll_ok |-> FALSE, validated |-> FALSE]

---------------------------------------------------------------------------
(* Bounds of the model *)

\* generate(max_attempts): the argument of the modelled call (the code's default is 500)
MaxAttempts == 3
\* coordinates of the rectangles given to _rectangles_overlap: 0..MaxCoord
MaxCoord == 2
\* template widths and heights given to calculate_sticker_zone: 1..MaxDim
MaxDim == 24
\* border widths given to calculate_sticker_zone: 1..MaxBorder
MaxBorder == 13
\* settings-change events and worker threads one window session of SpecApp is followed for
MaxChanges == 1
MaxRuns == 2

(* Constants of the program *)

SubAttempts == 10
MinStep == 5
StepDivisor == 10
FallbackInner == 10
FallbackMargin == 20

---------------------------------------------------------------------------
(* Python helpers *)

Min(a, b) == IF a <= b THEN a ELSE b
Max(a, b) == IF a >= b THEN a ELSE b
Abs(a) == IF a >= 0 THEN a ELSE -a

\* list(range(a, b, step)) for step > 0
RECURSIVE PyRange(_, _, _)
PyRange(a, b, step) == IF a >= b THEN <<>> ELSE <<a>> \o PyRange(a + step, b, step)

\* random.randint(a, b): the values it can return; empty where it raises ValueError
RandInt(a, b) == a..b

---------------------------------------------------------------------------
(* Geometry: _rectangles_overlap *)

RectanglesOverlap_strict(r1, r2) ==
    ~(r1[3] < r2[1] \/ r1[1] >= r2[3] \/ r1[4] <= r2[2] \/ r1[2] >= r2[4])

RectanglesOverlap(r1, r2) ==
    ~(r1[3] <= r2[1] \/ r1[1] >= r2[3] \/ r1[4] <= r2[2] \/ r1[2] >= r2[4])

\* the rectangle (x, y, x + w, y + h) the validator builds for a sticker
StickerRect(s) ==
    <<s.position[1], s.position[2],
      s.position[1] + s.size[1], s.position[2] + s.size[2]>>

---------------------------------------------------------------------------
(* Zone calculator: calculate_sticker_zone up to the assignment of inner_rect *)

ZoneBorder(c) ==
    LET inner_w == c.W - 2 * c.border_width
        inner_h == c.H - 2 * c.border_width
    IN  IF inner_w <= 0 \/ inner_h <= 0
        THEN Min(c.W - Max(FallbackInner, c.W - FallbackMargin),
                 c.H - Max(FallbackInner, c.H - FallbackMargin)) \div 2
        ELSE c.border_width

CalculateStickerZone_nofallback(c) ==
    <<c.border_width, c.border_width, c.W - c.border_width, c.H - c.border_width>>

CalculateStickerZone(c) ==
    LET inner_w == c.W - 2 * c.border_width
        inner_h == c.H - 2 * c.border_width
        fall    == inner_w <= 0 \/ inner_h <= 0
        iw      == IF fall THEN Max(FallbackInner, c.W - FallbackMargin) ELSE inner_w
        ih      == IF fall THEN Max(FallbackInner, c.H - FallbackMargin) ELSE inner_h
        border  == ZoneBorder(c)
    IN  <<border, border, border + iw, border + ih>>

---------------------------------------------------------------------------
(* Placement validator: is_position_valid *)

IsPositionValid_nooverlapcheck(c, inner, s, placed) ==
    LET x == s.position[1]
        y == s.position[2]
        w == s.size[1]
        h == s.size[2]
        r == StickerRect(s)
    IN  IF inner = NoRect THEN TRUE
        ELSE IF x + w < -c.border_overlap \/ x > c.W + c.border_overlap THEN FALSE
        ELSE IF y + h < -c.border_overlap \/ y > c.H + c.border_overlap THEN FALSE
        ELSE IF RectanglesOverlap(r, inner)
                /\ x >= inner[1] /\ x + w <= inner[3]
                /\ y >= inner[2] /\ y + h <= inner[4]
             THEN FALSE
        ELSE TRUE

IsPositionValid_noboundscheck(c, inner, s, placed) ==
    LET x == s.position[1]
        y == s.position[2]
        w == s.size[1]
        h == s.size[2]
        r == StickerRect(s)
    IN  IF inner = NoRect THEN TRUE
        ELSE IF RectanglesOverlap(r, inner)
                /\ x >= inner[1] /\ x + w <= inner[3]
                /\ y >= inner[2] /\ y + h <= inner[4]
             THEN FALSE
        ELSE IF ~c.overlap_allowed
                /\ \E i \in 1..Len(placed) : RectanglesOverlap(r, StickerRect(placed[i]))
             THEN FALSE
        ELSE TRUE

IsPositionValid_nostraddle(c, inner, s, placed) ==
    LET x == s.position[1]
        y == s.position[2]
        w == s.size[1]
        h == s.size[2]
        r == StickerRect(s)
    IN  IF inner = NoRect THEN TRUE
        ELSE IF x + w < -c.border_overlap \/ x > c.W + c.border_overlap THEN FALSE
        ELSE IF y + h < -c.border_overlap \/ y > c.H + c.border_overlap THEN FALSE
        ELSE IF RectanglesOverlap(r, inner) THEN FALSE
        ELSE IF ~c.overlap_allowed
                /\ \E i \in 1..Len(placed) : RectanglesOverlap(r, StickerRect(placed[i]))
             THEN FALSE
        ELSE TRUE

IsPositionValid_closedbounds(c, inner, s, placed) ==
    LET x == s.position[1]
        y == s.position[2]
        w == s.size[1]
        h == s.size[2]
        r == StickerRect(s)
    IN  IF inner = NoRect THEN TRUE
        ELSE IF x + w <= -c.border_overlap \/ x >= c.W + c.border_overlap THEN FALSE
        ELSE IF y + h <= -c.border_overlap \/ y >= c.H + c.border_overlap THEN FALSE
        ELSE IF RectanglesOverlap(r, inner)
                /\ x >= inner[1] /\ x + w <= inner[3]
                /\ y >= inner[2] /\ y + h <= inner[4]
             THEN FALSE
        ELSE IF ~c.overlap_allowed
                /\ \E i \in 1..Len(placed) : RectanglesOverlap(r, StickerRect(placed[i]))
             THEN FALSE
        ELSE TRUE

IsPositionValid(c, inner, s, placed) ==
    LET x == s.position[1]
        y == s.position[2]
        w == s.size[1]
        h == s.size[2]
        r == StickerRect(s)
    IN  IF inner = NoRect THEN TRUE
        ELSE IF x + w < -c.border_overlap \/ x > c.W + c.border_overlap THEN FALSE
        ELSE IF y + h < -c.border_overlap \/ y > c.H + c.border_overlap THEN FALSE
        ELSE IF RectanglesOverlap(r, inner)
                /\ x >= inner[1] /\ x + w <= inner[3]
                /\ y >= inner[2] /\ y + h <= inner[4]
             THEN FALSE
        ELSE IF ~c.overlap_allowed
                /\ \E i \in 1..Len(placed) : RectanglesOverlap(r, StickerRect(placed[i]))
             THEN FALSE
        ELSE TRUE

---------------------------------------------------------------------------
(* Candidate positions: _get_active_sides and _generate_perimeter_positions *)
(* (the same text as BaseAlgorithm.generate_positions)                      *)

GetActiveSides(c) ==
    CASE c.border_sides = "ALL"        -> {"top", "bottom", "left", "right"}
      [] c.border_sides = "TOP"        -> {"top"}
      [] c.border_sides = "BOTTOM"     -> {"bottom"}
      [] c.border_sides = "LEFT"       -> {"left"}
      [] c.border_sides = "RIGHT"      -> {"right"}
      [] c.border_sides = "TOP_BOTTOM" -> {"top", "bottom"}
      [] c.border_sides = "LEFT_RIGHT" -> {"left", "right"}
      [] c.border_sides = "CORNERS"    -> {"corners"}
      [] OTHER                         -> {}

Step(c) == Max(MinStep, c.border_width \div StepDivisor)

\* the scan points of the top and bottom loops, and of the left and right loops
ScanX(c) == PyRange(-c.border_overlap, c.W + c.border_overlap, Step(c))
ScanY(c) == PyRange(c.border_width, c.H - c.border_width, Step(c))
ScanCorner(c) ==
    PyRange(-c.border_overlap, c.border_width + c.border_overlap, Step(c))

\* what one pass of each loop can append; an empty set is a randint that raises
BaseTop(c, x) ==
    {<<x, r>> : r \in RandInt(-c.border_overlap, c.border_width \div 2)}
BaseBottom(c, x) ==
    {<<x, c.H - r>> : r \in RandInt(1, c.border_width \div 2 + c.border_overlap)}
BaseLeft(c, y) ==
    {<<r, y>> : r \in RandInt(-c.border_overlap, c.border_width \div 2)}
BaseRight(c, y) ==
    {<<c.W - r, y>> : r \in RandInt(1, c.border_width \div 2 + c.border_overlap)}
BaseCorner(c, x, y) ==
    <<<<x, y>>, <<c.W - x - 1, y>>, <<x, c.H - y - 1>>, <<c.W - x - 1, c.H - y - 1>>>>

RECURSIVE Flatten(_)
Flatten(ss) == IF ss = <<>> THEN <<>> ELSE Head(ss) \o Flatten(Tail(ss))

\* the corner entries, in the order of the nested loops
BaseCornerEntries(c) ==
    LET xs == ScanCorner(c)
        n  == Len(xs)
    IN  Flatten([k \in 1..(n * n) |->
                    BaseCorner(c, xs[((k - 1) \div n) + 1], xs[((k - 1) % n) + 1])])

\* one set per entry of the list, in list order: the values that entry can take
BaseEntrySets(c) ==
    LET sides == GetActiveSides(c)
        xs    == ScanX(c)
        ys    == ScanY(c)
        cs    == BaseCornerEntries(c)
    IN  (IF "top" \in sides THEN [k \in 1..Len(xs) |-> BaseTop(c, xs[k])] ELSE <<>>)
        \o (IF "bottom" \in sides THEN [k \in 1..Len(xs) |-> BaseBottom(c, xs[k])] ELSE <<>>)
        \o (IF "left" \in sides THEN [k \in 1..Len(ys) |-> BaseLeft(c, ys[k])] ELSE <<>>)
        \o (IF "right" \in sides THEN [k \in 1..Len(ys) |-> BaseRight(c, ys[k])] ELSE <<>>)
        \o (IF "corners" \in sides THEN [k \in 1..Len(cs) |-> {cs[k]}] ELSE <<>>)

\* every sequence with its k-th entry in the k-th set
RECURSIVE SeqProduct(_)
SeqProduct(sets) ==
    IF sets = <<>> THEN {<<>>}
    ELSE {<<e>> \o rest : e \in Head(sets), rest \in SeqProduct(Tail(sets))}

\* _generate_perimeter_positions raises ValueError (an empty randint range)
GeneratePositionsRaises(c) ==
    \E k \in 1..Len(BaseEntrySets(c)) : BaseEntrySets(c)[k] = {}

\* the lists _generate_perimeter_positions can assign to perimeter_positions
GeneratePerimeterPositions(c) == SeqProduct(BaseEntrySets(c))

---------------------------------------------------------------------------
(* Density weighting: _get_gradient_density, in thousandths *)

Thousand == 1000
GradientFloor == 300

\* floor(1000 * sqrt(d2 / m2)), capped at 1000
RatioThousandths(d2, m2) ==
    IF d2 >= m2 THEN Thousand
    ELSE CHOOSE r \in 0..Thousand :
            /\ r * r * m2 <= Thousand * Thousand * d2
            /\ (r + 1) * (r + 1) * m2 > Thousand * Thousand * d2

\* max(lo, min(1.0, v)), in thousandths
Clamp_nocap(lo, v) == Max(lo, v)

Clamp(lo, v) == Max(lo, Min(Thousand, v))

\* the weights the call can return for a position (radial: the ends and the middle
\* of random.uniform(0.3, 1.0))
GetGradientDensity(c, pos) ==
    IF ~c.gradient_density THEN {Thousand}
    ELSE IF c.gradient_type = "linear"
         THEN LET cx == c.W \div 2
                  cy == c.H \div 2
                  d2 == (pos[1] - cx) * (pos[1] - cx) + (pos[2] - cy) * (pos[2] - cy)
                  m2 == cx * cx + cy * cy
              IN  {Clamp(GradientFloor, RatioThousandths(d2, m2))}
         ELSE {GradientFloor, (GradientFloor + Thousand) \div 2, Thousand}

\* random.random() > base_density * gradient_factor, random() in [0, 1): the outcomes
\* of the test for one weight (density in hundredths, weight in thousandths)
DensityRejects_inverted(c, weight) ==
    IF c.sticker_density * weight > 0 THEN {TRUE, FALSE} ELSE {FALSE}

DensityRejects(c, weight) ==
    IF c.sticker_density * weight < 100 * Thousand THEN {TRUE, FALSE} ELSE {FALSE}

---------------------------------------------------------------------------
(* The sticker one outer iteration of generate draws *)

\* int(width / aspect) and int(height * aspect), aspect = orig_w / orig_h
ScaledSize(orig, size, by_width) ==
    IF by_width THEN <<size, (size * orig[2]) \div orig[1]>>
    ELSE <<(size * orig[1]) \div orig[2], size>>

\* Image.resize raises ValueError unless width and height are both at least 1
ResizeRaises(wh) == wh[1] < 1 \/ wh[2] < 1

\* sample draws of random.uniform(-180, 180) and of
\* random.uniform(min_opacity, max_opacity), opacity in hundredths
Rotations(c) == IF c.random_rotation THEN {-90, 45} ELSE {0}
Opacities(c) == IF c.random_opacity THEN {c.min_opacity, c.max_opacity} ELSE {100}

---------------------------------------------------------------------------
(* Values of the variables a specification does not use *)

NoConfig == [template_set |-> FALSE]

IdleRun ==
    /\ loaded_stickers = <<>> /\ perimeter_positions = <<>>
    /\ placed_stickers = <<>> /\ attempt = 0 /\ sub = 0 /\ cur = NoSticker
    /\ found = FALSE /\ canvas = FALSE /\ result = "unset"
    /\ result_size = <<>> /\ signal = None
    /\ layers = <<>> /\ last_k = 0 /\ probe = NoProbe

IdleRect == rect1 = <<>> /\ rect2 = <<>> /\ ov12 = FALSE /\ ov21 = FALSE

IdleValid == v_sticker = NoSticker /\ v_placed = <<>> /\ v_result = FALSE

IdlePos ==
    /\ alg = None /\ gen_pc = "idle" /\ gen_loop = 0 /\ gen_i = 0
    /\ emitted = <<>>

IdleApp ==
    /\ run_cfg = NoConfig /\ changes = 0 /\ runs = 0 /\ first_run = <<>>
    /\ btn_enabled = FALSE /\ others = 0
    /\ save_enabled = FALSE /\ current_image = FALSE /\ handled = "none"

IdleDens == d_pos = <<>> /\ d_weight = 0

IdleExt == n_positions = 0 /\ IdleApp /\ IdleDens

runVars == <<loaded_stickers, perimeter_positions, placed_stickers, attempt, sub,
             cur, found, canvas, result, result_size, signal, layers, last_k,
             probe>>

---------------------------------------------------------------------------
(* SpecRect: _rectangles_overlap applied to every pair of 4-tuples *)

Coords == 0..MaxCoord
Rects == Coords \X Coords \X Coords \X Coords

InitRect ==
    /\ IdleRun /\ IdleValid /\ IdlePos /\ IdleExt
    /\ cfg = NoConfig /\ fs = <<>> /\ inner_rect = NoRect
    /\ pc = "rect.call"
    /\ rect1 \in Rects /\ rect2 \in Rects
    /\ ov12 = FALSE /\ ov21 = FALSE

RectanglesOverlapCall ==
    /\ pc = "rect.call"
    /\ pc' = "rect.done"
    /\ ov12' = RectanglesOverlap(rect1, rect2)
    /\ ov21' = RectanglesOverlap(rect2, rect1)
    /\ UNCHANGED <<cfg, fs, inner_rect, runVars, rect1, rect2, validVars, posVars, extVars>>

NextRect == RectanglesOverlapCall

SpecRect == InitRect /\ [][NextRect]_vars

---------------------------------------------------------------------------
(* SpecZone: calculate_sticker_zone up to the assignment of inner_rect, for *)
(* every template of 1..MaxDim pixels and border of 1..MaxBorder pixels.    *)
(* Its trailing generate_positions call reads the configuration only, never *)
(* inner_rect: it is stepped under SpecPositions.                           *)

ZoneConfigs ==
    [template_set : BOOLEAN, W : 1..MaxDim, H : 1..MaxDim,
     border_width : 1..MaxBorder, border_overlap : {0}]

InitZone ==
    /\ IdleRun /\ IdleRect /\ IdleValid /\ IdlePos /\ IdleExt
    /\ cfg \in {c \in ZoneConfigs : ~c.template_set => (c.W = 1 /\ c.H = 1)}
    /\ fs = <<>>
    /\ pc = "zone.call"
    /\ inner_rect = NoRect

CalculateStickerZoneCall ==
    /\ pc = "zone.call"
    /\ pc' = "zone.done"
    /\ inner_rect' = IF cfg.template_set THEN CalculateStickerZone(cfg) ELSE inner_rect
    /\ UNCHANGED <<cfg, fs, runVars, rectVars, validVars, posVars, extVars>>

NextZone == CalculateStickerZoneCall

SpecZone == InitZone /\ [][NextZone]_vars

---------------------------------------------------------------------------
(* SpecValid: is_position_valid applied, once the zone is computed, to      *)
(* footprints of at least one pixel each way (a scaled image has no other   *)
(* size) around a plain and a fallback keep-out rectangle.                  *)

ValidConfigs ==
    [template_set : {TRUE}, W : {8}, H : {8}, border_width : {2},
     border_overlap : {1}, overlap_allowed : BOOLEAN]
    \cup
    [template_set : {TRUE}, W : {24}, H : {22}, border_width : {12},
     border_overlap : {0}, overlap_allowed : BOOLEAN]

Sticker(w, h, x, y) ==
    [size |-> <<w, h>>, position |-> <<x, y>>, rotation |-> 0, opacity |-> 100]

ValidPlaced(c) ==
    {<<>>, <<Sticker(3, 3, 0, 0)>>,
     <<Sticker(3, 3, 0, 0), Sticker(2, 2, c.W - 3, c.H - 3)>>}

InitValid ==
    /\ IdleRun /\ IdleRect /\ IdlePos /\ IdleExt
    /\ cfg \in ValidConfigs
    /\ fs = <<>>
    /\ pc = "valid.call"
    /\ inner_rect = CalculateStickerZone(cfg)
    /\ v_sticker \in {Sticker(w, h, x, y) :
                        w \in 1..3, h \in 1..3,
                        x \in -3..(cfg.W + 2), y \in -3..(cfg.H + 2)}
    /\ v_placed \in ValidPlaced(cfg)
    /\ v_result = FALSE

IsPositionValidCall ==
    /\ pc = "valid.call"
    /\ pc' = "valid.done"
    /\ v_result' = IsPositionValid(cfg, inner_rect, v_sticker, v_placed)
    /\ UNCHANGED <<cfg, fs, inner_rect, runVars, v_sticker, v_placed, rectVars, posVars, extVars>>

NextValid == IsPositionValidCall

SpecValid == InitValid /\ [][NextValid]_vars

---------------------------------------------------------------------------
(* Spec: one GenerationThread.run, which constructs a StickerFrameGenerator *)
(* on a configuration and a sticker directory and calls generate().         *)

\* an image file of the directory: its pixel size, and whether Image.open decodes it
File(w, h, ok) == [size |-> <<w, h>>, decodable |-> ok]

BaseConfig ==
    [template_set |-> TRUE, W |-> 10, H |-> 8, out_W |-> 10, out_H |-> 8,
     sticker_dir |-> "stickers", sticker_density |-> 100,
     min_sticker_size |-> 2, max_sticker_size |-> 2,
     border_width |-> 2, border_overlap |-> 0, overlap_allowed |-> TRUE,
     random_rotation |-> FALSE, random_opacity |-> FALSE,
     min_opacity |-> 70, max_opacity |-> 100,
     border_sides |-> "ALL", gradient_density |-> FALSE, gradient_type |-> "linear",
     preview_auto |-> TRUE, algorithm |-> "BASE"]

Square == <<File(4, 4, TRUE)>>

\* the runs checked: a configuration and the content of its sticker directory
Scenarios ==
    { \* scenario A, scaled: all sides, overlap 0, density 1.0, overlap allowed
      [config |-> [BaseConfig EXCEPT !.max_sticker_size = 3],
       files |-> <<File(4, 4, TRUE), File(4, 4, TRUE)>>],
      \* overlap disallowed, density 0.6, stickers reaching past the template, resized
      [config |-> [BaseConfig EXCEPT !.border_sides = "TOP", !.border_overlap = 1,
                      !.overlap_allowed = FALSE, !.sticker_density = 60,
                      !.min_sticker_size = 4, !.max_sticker_size = 6,
                      !.out_W = 20, !.out_H = 16],
       files |-> Square],
      \* corners only, the CORNER variant named
      [config |-> [BaseConfig EXCEPT !.border_sides = "CORNERS", !.W = 12,
                      !.out_W = 12, !.border_width = 3, !.border_overlap = 1,
                      !.algorithm = "CORNER"],
       files |-> Square],
      \* a border half the template wide: the zone fallback, candidates in the keep-out
      [config |-> [BaseConfig EXCEPT !.H = 10, !.out_H = 10, !.border_width = 5,
                      !.border_sides = "TOP", !.border_overlap = 1,
                      !.max_sticker_size = 3],
       files |-> Square],
      \* the same border, left side only: no candidate at all
      [config |-> [BaseConfig EXCEPT !.H = 10, !.out_H = 10, !.border_width = 5,
                      !.border_sides = "LEFT"],
       files |-> Square],
      \* a border of one pixel and no overlap: randint(1, 0) on the bottom side
      [config |-> [BaseConfig EXCEPT !.border_width = 1, !.border_sides = "TOP_BOTTOM"],
       files |-> Square],
      \* linear and radial gradient density
      [config |-> [BaseConfig EXCEPT !.gradient_density = TRUE,
                      !.border_sides = "LEFT_RIGHT", !.overlap_allowed = FALSE],
       files |-> Square],
      [config |-> [BaseConfig EXCEPT !.gradient_density = TRUE,
                      !.gradient_type = "radial", !.border_sides = "BOTTOM"],
       files |-> Square],
      \* random rotation and opacity, the UNIFORM variant named
      [config |-> [BaseConfig EXCEPT !.random_rotation = TRUE, !.random_opacity = TRUE,
                      !.border_sides = "RIGHT", !.algorithm = "UNIFORM"],
       files |-> Square],
      \* scenario A with min_sticker_size > max_sticker_size, and with a wide source
      [config |-> [BaseConfig EXCEPT !.min_sticker_size = 3], files |-> Square],
      [config |-> [BaseConfig EXCEPT !.max_sticker_size = 3],
       files |-> <<File(4, 1, TRUE)>>],
      \* a border wider than the template: bottom candidates above the template
      [config |-> [BaseConfig EXCEPT !.border_width = 22, !.border_sides = "BOTTOM"],
       files |-> Square],
      \* a wide and a tall source, and a file that does not decode
      [config |-> [BaseConfig EXCEPT !.border_sides = "LEFT", !.min_sticker_size = 1],
       files |-> <<File(4, 1, TRUE), File(0, 0, FALSE), File(2, 4, TRUE)>>],
      \* an empty directory, a directory of undecodable files only
      [config |-> BaseConfig, files |-> <<>>],
      [config |-> BaseConfig, files |-> <<File(0, 0, FALSE)>>],
      \* no directory chosen, a directory that does not exist, no template size
      [config |-> [BaseConfig EXCEPT !.sticker_dir = ""], files |-> <<>>],
      [config |-> [BaseConfig EXCEPT !.sticker_dir = "missing"], files |-> <<>>],
      [config |-> [BaseConfig EXCEPT !.template_set = FALSE], files |-> Square] }

Init ==
    /\ IdleRun /\ IdleRect /\ IdleValid /\ IdlePos /\ IdleExt
    /\ \E sc \in Scenarios : cfg = sc.config /\ fs = sc.files
    /\ pc = "run"
    /\ inner_rect = NoRect

RECURSIVE LoadStickers_stopsatfirst(_)
LoadStickers_stopsatfirst(files) ==
    IF files = <<>> \/ ~Head(files).decodable THEN <<>>
    ELSE <<Head(files).size>> \o LoadStickers_stopsatfirst(Tail(files))

\* _load_stickers: the decodable files, in directory order
LoadStickers(files) ==
    LET Keep(f) == f.decodable
    IN  [k \in 1..Len(SelectSeq(files, Keep)) |-> SelectSeq(files, Keep)[k].size]

\* StickerFrameGenerator.__init__ (called at GenerationThread.run line 387), with
\* _load_stickers, _calculate_sticker_zone and _generate_perimeter_positions
Construct ==
    /\ pc = "run"
    /\ IF cfg.sticker_dir = ""
       THEN /\ pc' = "constructed"
            /\ UNCHANGED <<loaded_stickers, inner_rect, perimeter_positions>>
       ELSE IF cfg.sticker_dir = "missing"
       THEN /\ pc' = "raised"
            /\ UNCHANGED <<loaded_stickers, inner_rect, perimeter_positions>>
       ELSE /\ loaded_stickers' = LoadStickers(fs)
            /\ IF ~cfg.template_set
               THEN /\ pc' = "constructed"
                    /\ UNCHANGED <<inner_rect, perimeter_positions>>
               ELSE /\ inner_rect' = CalculateStickerZone(cfg)
                    /\ IF GeneratePositionsRaises(cfg)
                       THEN pc' = "raised" /\ UNCHANGED perimeter_positions
                       ELSE /\ pc' = "constructed"
                            /\ perimeter_positions' \in GeneratePerimeterPositions(cfg)
    /\ UNCHANGED <<cfg, fs, placed_stickers, attempt, sub, cur, found, canvas,
                   result, result_size, signal, rectVars, validVars, posVars, extVars,
                   layers, last_k, probe>>

\* generate lines 282-283
FailFast_templateonly(c, loaded) == ~c.template_set

FailFast(c, loaded) == Len(loaded) = 0 \/ ~c.template_set

\* generate lines 280-295: the fail-fast test, the canvas, the candidate list
GenerateEnter ==
    /\ pc = "constructed"
    /\ IF FailFast(cfg, loaded_stickers)
       THEN /\ result' = "None"
            /\ pc' = "returned"
            /\ UNCHANGED <<canvas, perimeter_positions, placed_stickers, attempt,
                           layers>>
       ELSE /\ canvas' = TRUE
            /\ layers' = <<>>
            /\ placed_stickers' = <<>>
            /\ attempt' = 0
            /\ IF perimeter_positions # <<>>
               THEN pc' = "attempt" /\ result' = result /\ UNCHANGED perimeter_positions
               ELSE IF GeneratePositionsRaises(cfg)
               THEN pc' = "raised" /\ result' = "raised" /\ UNCHANGED perimeter_positions
               ELSE /\ pc' = "attempt" /\ result' = result
                    /\ perimeter_positions' \in GeneratePerimeterPositions(cfg)
    /\ UNCHANGED <<cfg, fs, loaded_stickers, inner_rect, sub, cur, found, result_size,
                   signal, rectVars, validVars, posVars, extVars, last_k, probe>>

\* generate lines 297-325: the loop test and the draw of source, size, rotation, opacity
AttemptStart ==
    /\ pc = "attempt"
    /\ attempt < MaxAttempts
    /\ \/ /\ Len(loaded_stickers) = 0 \/ cfg.min_sticker_size > cfg.max_sticker_size
          /\ pc' = "raised" /\ result' = "raised"
          /\ UNCHANGED <<cur, found, sub, last_k, probe>>
       \/ \E i \in 1..Len(loaded_stickers),
             size \in RandInt(cfg.min_sticker_size, cfg.max_sticker_size),
             by_width \in BOOLEAN, rot \in Rotations(cfg), op \in Opacities(cfg) :
            LET wh == ScaledSize(loaded_stickers[i], size, by_width)
            IN  IF ResizeRaises(wh)
                THEN /\ pc' = "raised" /\ result' = "raised"
                     /\ UNCHANGED <<cur, found, sub, last_k, probe>>
                ELSE /\ cur' = [size |-> wh, position |-> <<0, 0>>,
                                rotation |-> rot, opacity |-> op]
                     /\ found' = FALSE
                     /\ sub' = 0
                     /\ last_k' = 0
                     /\ probe' = NoProbe
                     /\ pc' = "search" /\ result' = result
    /\ UNCHANGED <<cfg, fs, loaded_stickers, inner_rect, perimeter_positions,
                   placed_stickers, attempt, canvas, result_size, signal,
                   rectVars, validVars, posVars, extVars, layers>>

SubAttempt_prepends ==
    /\ pc = "search"
    /\ IF sub = SubAttempts \/ perimeter_positions = <<>>
       THEN /\ pc' = "endattempt" /\ last_k' = 0 /\ probe' = NoProbe
            /\ UNCHANGED <<sub, found, placed_stickers, layers>>
       ELSE \E k \in 1..Len(perimeter_positions) :
            \E weight \in GetGradientDensity(cfg, perimeter_positions[k]) :
            \E rejected \in DensityRejects(cfg, weight) :
              LET sticker_config == [cur EXCEPT !.position = perimeter_positions[k]]
              IN  /\ sub' = sub + 1
                  /\ probe' = [roll_ok |-> ~rejected, validated |-> ~rejected]
                  /\ IF ~rejected
                        /\ IsPositionValid(cfg, inner_rect, sticker_config, placed_stickers)
                     THEN /\ layers' = Append(layers, sticker_config)
                          /\ placed_stickers' = <<sticker_config>> \o placed_stickers
                          /\ found' = TRUE
                          /\ pc' = "endattempt" /\ last_k' = 0
                     ELSE /\ last_k' = k
                          /\ UNCHANGED <<pc, found, placed_stickers, layers>>
    /\ UNCHANGED <<cfg, fs, loaded_stickers, inner_rect, perimeter_positions, attempt,
                   cur, canvas, result, result_size, signal,
                   rectVars, validVars, posVars, extVars>>

SubAttempt_validatesfirst ==
    /\ pc = "search"
    /\ IF sub = SubAttempts \/ perimeter_positions = <<>>
       THEN /\ pc' = "endattempt" /\ last_k' = 0 /\ probe' = NoProbe
            /\ UNCHANGED <<sub, found, placed_stickers, layers>>
       ELSE \E k \in 1..Len(perimeter_positions) :
            \E weight \in GetGradientDensity(cfg, perimeter_positions[k]) :
            \E rejected \in DensityRejects(cfg, weight) :
              LET sticker_config == [cur EXCEPT !.position = perimeter_positions[k]]
              IN  /\ sub' = sub + 1
                  /\ probe' = [roll_ok |-> ~rejected, validated |-> TRUE]
                  /\ IF ~rejected
                        /\ IsPositionValid(cfg, inner_rect, sticker_config, placed_stickers)
                     THEN /\ layers' = Append(layers, sticker_config)
                          /\ placed_stickers' = Append(placed_stickers, sticker_config)
                          /\ found' = TRUE
                          /\ pc' = "endattempt" /\ last_k' = 0
                     ELSE /\ last_k' = k
                          /\ UNCHANGED <<pc, found, placed_stickers, layers>>
    /\ UNCHANGED <<cfg, fs, loaded_stickers, inner_rect, perimeter_positions, attempt,
                   cur, canvas, result, result_size, signal,
                   rectVars, validVars, posVars, extVars>>

\* generate lines 329-363: one pass of the inner loop (or its end)
SubAttempt ==
    /\ pc = "search"
    /\ IF sub = SubAttempts \/ perimeter_positions = <<>>
       THEN /\ pc' = "endattempt" /\ last_k' = 0 /\ probe' = NoProbe
            /\ UNCHANGED <<sub, found, placed_stickers, layers>>
       ELSE \E k \in 1..Len(perimeter_positions) :
            \E weight \in GetGradientDensity(cfg, perimeter_positions[k]) :
            \E rejected \in DensityRejects(cfg, weight) :
              LET sticker_config == [cur EXCEPT !.position = perimeter_positions[k]]
              IN  /\ sub' = sub + 1
                  /\ probe' = [roll_ok |-> ~rejected, validated |-> ~rejected]
                  /\ IF ~rejected
                        /\ IsPositionValid(cfg, inner_rect, sticker_config, placed_stickers)
                     THEN /\ layers' = Append(layers, sticker_config)
                          /\ placed_stickers' = Append(placed_stickers, sticker_config)
                          /\ found' = TRUE
                          /\ pc' = "endattempt" /\ last_k' = 0
                     ELSE /\ last_k' = k
                          /\ UNCHANGED <<pc, found, placed_stickers, layers>>
    /\ UNCHANGED <<cfg, fs, loaded_stickers, inner_rect, perimeter_positions, attempt,
                   cur, canvas, result, result_size, signal,
                   rectVars, validVars, posVars, extVars>>

\* generate lines 365-367, and the loop's next iteration
EndAttempt_countsmisses ==
    /\ pc = "endattempt"
    /\ IF ~found /\ Len(placed_stickers) > 0
       THEN pc' = "finalize" /\ UNCHANGED attempt
       ELSE pc' = "attempt" /\ attempt' = IF found THEN attempt ELSE attempt + 1
    /\ UNCHANGED <<cfg, fs, loaded_stickers, inner_rect, perimeter_positions,
                   placed_stickers, sub, cur, found, canvas, result, result_size,
                   signal, rectVars, validVars, posVars, extVars,
                   layers, last_k, probe>>

EndAttempt_continues ==
    /\ pc = "endattempt"
    /\ pc' = "attempt" /\ attempt' = attempt + 1
    /\ UNCHANGED <<cfg, fs, loaded_stickers, inner_rect, perimeter_positions,
                   placed_stickers, sub, cur, found, canvas, result, result_size,
                   signal, rectVars, validVars, posVars, extVars,
                   layers, last_k, probe>>

\* generate lines 365-367, and the step of `for attempt in range(max_attempts)`
EndAttempt ==
    /\ pc = "endattempt"
    /\ IF ~found /\ Len(placed_stickers) > 0
       THEN pc' = "finalize" /\ UNCHANGED attempt
       ELSE pc' = "attempt" /\ attempt' = attempt + 1
    /\ UNCHANGED <<cfg, fs, loaded_stickers, inner_rect, perimeter_positions,
                   placed_stickers, sub, cur, found, canvas, result, result_size,
                   signal, rectVars, validVars, posVars, extVars,
                   layers, last_k, probe>>

Finalize_nonempty ==
    /\ \/ pc = "finalize"
       \/ pc = "attempt" /\ attempt >= MaxAttempts
    /\ result' = IF placed_stickers = <<>> THEN "None" ELSE "image"
    /\ result_size' = IF placed_stickers = <<>> THEN result_size
                      ELSE <<cfg.out_W, cfg.out_H>>
    /\ pc' = "returned"
    /\ UNCHANGED <<cfg, fs, loaded_stickers, inner_rect, perimeter_positions,
                   placed_stickers, attempt, sub, cur, found, canvas, signal,
                   rectVars, validVars, posVars, extVars,
                   layers, last_k, probe>>

Finalize_noresize ==
    /\ \/ pc = "finalize"
       \/ pc = "attempt" /\ attempt >= MaxAttempts
    /\ result' = "image"
    /\ result_size' = <<cfg.W, cfg.H>>
    /\ pc' = "returned"
    /\ UNCHANGED <<cfg, fs, loaded_stickers, inner_rect, perimeter_positions,
                   placed_stickers, attempt, sub, cur, found, canvas, signal,
                   rectVars, validVars, posVars, extVars,
                   layers, last_k, probe>>

\* generate lines 369-373: the resize to output_size, and the return
Finalize ==
    /\ \/ pc = "finalize"
       \/ pc = "attempt" /\ attempt >= MaxAttempts
    /\ result' = "image"
    /\ result_size' = IF <<cfg.out_W, cfg.out_H>> # <<cfg.W, cfg.H>>
                      THEN <<cfg.out_W, cfg.out_H>>
                      ELSE <<cfg.W, cfg.H>>
    /\ pc' = "returned"
    /\ UNCHANGED <<cfg, fs, loaded_stickers, inner_rect, perimeter_positions,
                   placed_stickers, attempt, sub, cur, found, canvas, signal,
                   rectVars, validVars, posVars, extVars,
                   layers, last_k, probe>>

\* GenerationThread.run lines 389-394: the signal emitted
ThreadEmit ==
    /\ pc \in {"returned", "raised"}
    /\ signal' = IF pc = "returned" /\ result = "image"
                 THEN "generation_complete"
                 ELSE "generation_error"
    /\ pc' = "finished"
    /\ UNCHANGED <<cfg, fs, loaded_stickers, inner_rect, perimeter_positions,
                   placed_stickers, attempt, sub, cur, found, canvas, result,
                   result_size, rectVars, validVars, posVars, extVars,
                   layers, last_k, probe>>

Next ==
    \/ Construct
    \/ GenerateEnter
    \/ AttemptStart
    \/ SubAttempt
    \/ EndAttempt
    \/ Finalize
    \/ ThreadEmit

Spec == Init /\ [][Next]_vars

---------------------------------------------------------------------------
(* SpecPositions: generate_positions of BaseAlgorithm, UniformAlgorithm,    *)
(* GradientAlgorithm and CornerAlgorithm.  A list of 50 to 300 random       *)
(* entries is not enumerated: the method is stepped one positions.append    *)
(* site at a time, and the state holds the entry that step appended.        *)

PositionsPerSide == 50
GradientTotal == 300
CornerTotal == 200
CornerShare == 70
CornerSites == 4

Appended(e) == [kind |-> "append", entry |-> e]
Skipped == [kind |-> "skip", entry |-> <<0, 0>>]
Raised == [kind |-> "raise", entry |-> <<0, 0>>]

\* (x, y) drawn from two randint ranges, the entry built from them by F
Pairs(X, Y) ==
    IF X = {} \/ Y = {} THEN {Raised} ELSE {Appended(<<x, y>>) : x \in X, y \in Y}

CornerSize(c) == c.border_width + c.border_overlap

\* a loop of the method: its name and the number of steps it makes
Loop(name, count) == [name |-> name, count |-> count]

\* ---- BaseAlgorithm.generate_positions ----
BaseLoops(c) ==
    LET sides == GetActiveSides(c)
        On(side, n) == IF side \in sides THEN n ELSE 0
    IN  << Loop("top", On("top", Len(ScanX(c)))),
           Loop("bottom", On("bottom", Len(ScanX(c)))),
           Loop("left", On("left", Len(ScanY(c)))),
           Loop("right", On("right", Len(ScanY(c)))),
           Loop("corners", On("corners", Len(BaseCornerEntries(c)))) >>

BaseStep(c, name, i) ==
    LET Some(S) == IF S = {} THEN {Raised} ELSE {Appended(e) : e \in S}
    IN  CASE name = "top"     -> Some(BaseTop(c, ScanX(c)[i + 1]))
          [] name = "bottom"  -> Some(BaseBottom(c, ScanX(c)[i + 1]))
          [] name = "left"    -> Some(BaseLeft(c, ScanY(c)[i + 1]))
          [] name = "right"   -> Some(BaseRight(c, ScanY(c)[i + 1]))
          [] name = "corners" -> {Appended(BaseCornerEntries(c)[i + 1])}

\* ---- UniformAlgorithm.generate_positions ----
UniformLoops(c) ==
    LET sides == GetActiveSides(c)
        On(side, n) == IF side \in sides THEN n ELSE 0
    IN  << Loop("top", On("top", PositionsPerSide)),
           Loop("bottom", On("bottom", PositionsPerSide)),
           Loop("left", On("left", PositionsPerSide)),
           Loop("right", On("right", PositionsPerSide)),
           Loop("corners", On("corners", (PositionsPerSide \div 4) * CornerSites)) >>

UniformStep(c, name, i) ==
    LET o  == c.border_overlap
        b  == c.border_width
        cs == CornerSize(c)
        near == RandInt(-o, cs)
        farX == RandInt(c.W - cs - o, c.W + o)
        farY == RandInt(c.H - cs - o, c.H + o)
    IN  CASE name = "top" ->
               Pairs(RandInt(-o, c.W + o), RandInt(-o, b \div 2))
          [] name = "bottom" ->
               Pairs(RandInt(-o, c.W + o), RandInt(c.H - b \div 2 - o, c.H + o))
          [] name = "left" ->
               Pairs(RandInt(-o, b \div 2), RandInt(b, c.H - b))
          [] name = "right" ->
               Pairs(RandInt(c.W - b \div 2 - o, c.W + o), RandInt(b, c.H - b))
          [] name = "corners" ->
               CASE i % CornerSites = 0 -> Pairs(near, near)
                 [] i % CornerSites = 1 -> Pairs(farX, near)
                 [] i % CornerSites = 2 -> Pairs(near, farY)
                 [] OTHER               -> Pairs(farX, farY)

\* ---- the corner entries of GradientAlgorithm and CornerAlgorithm ----
\* int(corner_size * distance) for a distance in [0, 1), the same for x and y
CornerOffsets(c) == 0..Max(0, CornerSize(c) - 1)

OutwardCorners(c) ==
    UNION {{Appended(<<-k, -k>>), Appended(<<c.W + k, -k>>),
            Appended(<<-k, c.H + k>>), Appended(<<c.W + k, c.H + k>>)} :
           k \in CornerOffsets(c)}

\* ---- GradientAlgorithm.generate_positions ----
GradientLoops(c) ==
    << Loop("samples", IF GetActiveSides(c) = {} THEN 0 ELSE GradientTotal) >>

\* int(border // 2 * (1 - center_factor * 0.5)), center_factor = |t - L/2| / (L/2):
\* (border // 2) * (2L - |2t - L|) / (2L), truncated toward zero
TransverseRange(c, t, L) ==
    LET num == (c.border_width \div 2) * (2 * L - Abs(2 * t - L))
    IN  IF num >= 0 THEN num \div (2 * L) ELSE 0

GradientSide(c, side) ==
    LET o == c.border_overlap
        b == c.border_width
        X == RandInt(-o, c.W + o)
        Y == RandInt(b, c.H - b)
    IN  CASE side = "top" ->
               UNION {{Appended(<<x, y>>) :
                         y \in RandInt(-o, Max(1, TransverseRange(c, x, c.W)))} : x \in X}
          [] side = "bottom" ->
               UNION {{Appended(<<x, c.H - r>>) :
                         r \in RandInt(1, Max(1, TransverseRange(c, x, c.W) + o))} : x \in X}
          [] side = "left" ->
               IF Y = {} THEN {Raised}
               ELSE UNION {{Appended(<<x, y>>) :
                         x \in RandInt(-o, Max(1, TransverseRange(c, y, c.H)))} : y \in Y}
          [] side = "right" ->
               IF Y = {} THEN {Raised}
               ELSE UNION {{Appended(<<c.W - r, y>>) :
                         r \in RandInt(1, Max(1, TransverseRange(c, y, c.H) + o))} : y \in Y}
          [] side = "corners" -> OutwardCorners(c)

GradientStep(c, name, i) == UNION {GradientSide(c, side) : side \in GetActiveSides(c)}

\* ---- CornerAlgorithm.generate_positions ----
\* int(total_positions * 0.7) corner entries, then total - that many passes over
\* the four sides, each side appending with probability 0.25
CornerLoops(c) ==
    LET corner_positions == (CornerTotal * CornerShare) \div 100
    IN  << Loop("corner", corner_positions),
           Loop("sides", (CornerTotal - corner_positions) * CornerSites) >>

CornerStep(c, name, i) ==
    LET o == c.border_overlap
        b == c.border_width
        sides == GetActiveSides(c)
        Maybe(side, S) == IF side \in sides THEN S \cup {Skipped} ELSE {Skipped}
    IN  IF name = "corner" THEN OutwardCorners(c)
        ELSE CASE i % CornerSites = 0 ->
                    Maybe("top", Pairs(RandInt(-o, c.W + o), RandInt(-o, b \div 4)))
               [] i % CornerSites = 1 ->
                    Maybe("bottom", Pairs(RandInt(-o, c.W + o),
                                          {c.H - r : r \in RandInt(1, b \div 4 + o)}))
               [] i % CornerSites = 2 ->
                    Maybe("left", Pairs(RandInt(-o, b \div 4), RandInt(b, c.H - b)))
               [] OTHER ->
                    Maybe("right", Pairs({c.W - r : r \in RandInt(1, b \div 4 + o)},
                                         RandInt(b, c.H - b)))

\* ---- dispatch on the instance's class ----
Loops(c, a) ==
    CASE a = "BASE"     -> BaseLoops(c)
      [] a = "UNIFORM"  -> UniformLoops(c)
      [] a = "GRADIENT" -> GradientLoops(c)
      [] a = "CORNER"   -> CornerLoops(c)

StepOutcomes(c, a, name, i) ==
    CASE a = "BASE"     -> BaseStep(c, name, i)
      [] a = "UNIFORM"  -> UniformStep(c, name, i)
      [] a = "GRADIENT" -> GradientStep(c, name, i)
      [] a = "CORNER"   -> CornerStep(c, name, i)

\* the first loop from index l on that has a step to make; Len + 1 when none has
RECURSIVE LoopFrom(_, _)
LoopFrom(ls, l) ==
    IF l > Len(ls) THEN l
    ELSE IF ls[l].count > 0 THEN l ELSE LoopFrom(ls, l + 1)

Algorithms == {"BASE", "UNIFORM", "GRADIENT", "CORNER"}

AllSides ==
    {"ALL", "TOP", "BOTTOM", "LEFT", "RIGHT", "TOP_BOTTOM", "LEFT_RIGHT", "CORNERS"}

PosConfig(sides, b, o) ==
    [template_set |-> TRUE, W |-> 8, H |-> 6, border_width |-> b,
     border_overlap |-> o, border_sides |-> sides]

PosConfigs ==
    {PosConfig(sides, 2, 1) : sides \in AllSides}
    \cup {PosConfig("ALL", 2, 0), PosConfig("CORNERS", 2, 0),
          PosConfig("ALL", 4, 0), PosConfig("LEFT_RIGHT", 4, 1),
          [PosConfig("ALL", 2, 1) EXCEPT !.template_set = FALSE]}

InitPositions ==
    /\ IdleRun /\ IdleRect /\ IdleValid /\ IdleExt
    /\ cfg \in PosConfigs
    /\ fs = <<>>
    /\ pc = "positions"
    /\ inner_rect = NoRect
    /\ alg \in Algorithms
    /\ gen_pc = "call" /\ gen_loop = 0 /\ gen_i = 0 /\ emitted = <<>>

\* generate_positions up to its first loop: `positions = []`, the active sides
PositionsEnter ==
    /\ gen_pc = "call"
    /\ IF ~cfg.template_set
       THEN gen_pc' = "done" /\ gen_loop' = 0
       ELSE LET l == LoopFrom(Loops(cfg, alg), 1)
            IN  /\ gen_loop' = l
                /\ gen_pc' = IF l > Len(Loops(cfg, alg)) THEN "done" ELSE "loop"
    /\ UNCHANGED <<cfg, fs, pc, inner_rect, runVars, alg, gen_i, emitted,
                   rectVars, validVars, extVars>>

\* one append site of the current loop
PositionsStep ==
    /\ pc = "positions"
    /\ gen_pc = "loop"
    /\ \E out \in StepOutcomes(cfg, alg, Loops(cfg, alg)[gen_loop].name, gen_i) :
         IF out.kind = "raise"
         THEN gen_pc' = "raised" /\ emitted' = <<>> /\ UNCHANGED <<gen_loop, gen_i>>
         ELSE /\ emitted' = IF out.kind = "append" THEN <<out.entry>> ELSE <<>>
              /\ IF gen_i + 1 < Loops(cfg, alg)[gen_loop].count
                 THEN gen_i' = gen_i + 1 /\ UNCHANGED <<gen_loop, gen_pc>>
                 ELSE LET l == LoopFrom(Loops(cfg, alg), gen_loop + 1)
                      IN  /\ gen_i' = 0
                          /\ gen_loop' = l
                          /\ gen_pc' = IF l > Len(Loops(cfg, alg)) THEN "done" ELSE "loop"
    /\ UNCHANGED <<cfg, fs, pc, inner_rect, runVars, alg, rectVars, validVars,
                   extVars>>

NextPositions == PositionsEnter \/ PositionsStep

SpecPositions == InitPositions /\ [][NextPositions]_vars

---------------------------------------------------------------------------
(* Unit cells of a rectangle: the pixels it covers *)

Cells(r) == {<<i, j>> \in (r[1]..(r[3] - 1)) \X (r[2]..(r[4] - 1)) : TRUE}

Proper(r) == r[1] < r[3] /\ r[2] < r[4]

\* closed rectangles meet (in an edge or a corner at least)
ClosedMeet(a, b) == a[1] <= b[3] /\ b[1] <= a[3] /\ a[2] <= b[4] /\ b[2] <= a[4]

---------------------------------------------------------------------------
\* C5: whenever _rectangles_overlap has been applied to a pair both ways, the two
\* results agree, and two rectangles of positive area whose closed boxes meet without
\* sharing a pixel (an edge or a corner in common only) are reported not overlapping.
C5_OverlapSymmetricHalfOpen ==
    pc = "rect.done" =>
        /\ ov12 = ov21
        /\ (Proper(rect1) /\ Proper(rect2) /\ ClosedMeet(rect1, rect2)
            /\ Cells(rect1) \cap Cells(rect2) = {}) => ~ov12

\* the spec's example, scaled: (0,0,1,1) and (1,0,2,1) share an edge only
C5_Witness ==
    /\ pc = "rect.done"
    /\ rect1 = <<0, 0, 1, 1>> /\ rect2 = <<1, 0, 2, 1>>
    /\ ov12 = FALSE /\ ov21 = FALSE

\* C4: whenever calculate_sticker_zone has set the inner rectangle (template of
\* positive dimensions, border width >= 1, hence also width and height >= 21), its
\* right edge is beyond its left edge and its bottom edge beyond its top edge.
C4_InnerRectNonDegenerate ==
    (pc = "zone.done" /\ cfg.template_set) =>
        /\ inner_rect # NoRect
        /\ inner_rect[3] > inner_rect[1]
        /\ inner_rect[4] > inner_rect[2]

\* the fallback branch taken for a template of at least 21 x 21
C4_Witness ==
    /\ pc = "zone.done" /\ cfg.template_set
    /\ cfg.W >= 21 /\ cfg.H >= 21
    /\ cfg.W - 2 * cfg.border_width <= 0
    /\ inner_rect[3] > inner_rect[1] /\ inner_rect[4] > inner_rect[2]

FullyInside(s, inner) == Cells(StickerRect(s)) \subseteq Cells(inner)

Straddles(s, inner) ==
    /\ Cells(StickerRect(s)) \cap Cells(inner) # {}
    /\ Cells(StickerRect(s)) \ Cells(inner) # {}

OffCanvas(c, s) ==
    \/ s.position[1] + s.size[1] < -c.border_overlap
    \/ s.position[1] > c.W + c.border_overlap
    \/ s.position[2] + s.size[2] < -c.border_overlap
    \/ s.position[2] > c.H + c.border_overlap

OverlapsPlaced(s, placed) ==
    \E i \in 1..Len(placed) :
        Cells(StickerRect(s)) \cap Cells(StickerRect(placed[i])) # {}

\* C3: with the keep-out rectangle computed, is_position_valid returns False for every
\* footprint whose pixels all lie in the inner rectangle, and True for every footprint
\* with pixels on both sides of its boundary that is not off-canvas and, when
\* overlap_allowed is false, shares no pixel with an already placed footprint.
C3_ContainmentRule ==
    pc = "valid.done" =>
        /\ FullyInside(v_sticker, inner_rect) => v_result = FALSE
        /\ (/\ Straddles(v_sticker, inner_rect)
            /\ ~OffCanvas(cfg, v_sticker)
            /\ (cfg.overlap_allowed \/ ~OverlapsPlaced(v_sticker, v_placed)))
           => v_result = TRUE

\* a straddling footprint accepted although overlap is disallowed and stickers are placed
C3_Witness ==
    /\ pc = "valid.done"
    /\ ~cfg.overlap_allowed /\ Len(v_placed) = 2
    /\ Straddles(v_sticker, inner_rect)
    /\ v_result = TRUE

---------------------------------------------------------------------------
(* SpecApp: the main window around the worker thread.  SettingsPanel.config *)
(* is one FrameConfig object: get_config returns it, GenerationThread keeps *)
(* a reference to it and on_settings_changed assigns its fields in place,   *)
(* so cfg is both what the panel writes and what the generator reads.  The  *)
(* run variables follow one worker thread at a time; a thread started while *)
(* the followed one is alive is only counted (others).                      *)

AppConfig == [BaseConfig EXCEPT !.W = 5, !.border_sides = "TOP"]

\* the widget values one settings event can leave behind: the overlap spin box moved
\* between 0 and 1, or the auto-preview box toggled
WidgetEdits(c) ==
    {[c EXCEPT !.border_overlap = 1 - c.border_overlap],
     [c EXCEPT !.preview_auto = ~c.preview_auto]}

InitApp ==
    /\ IdleRun /\ IdleRect /\ IdleValid /\ IdlePos /\ IdleDens
    /\ n_positions = 0
    /\ \E auto \in BOOLEAN : cfg = [AppConfig EXCEPT !.preview_auto = auto]
    /\ fs = Square
    /\ pc = "idle"
    /\ inner_rect = NoRect
    /\ run_cfg = NoConfig /\ changes = 0 /\ runs = 0 /\ first_run = <<>>
    /\ btn_enabled = TRUE /\ others = 0
    /\ save_enabled = FALSE /\ current_image = FALSE /\ handled = "none"

\* MainWindow.generate_frame for the configuration value c the panel now holds
GenerateFrame(c) ==
    IF c.sticker_dir \in {"", "missing"}
    THEN UNCHANGED <<btn_enabled, save_enabled, handled, runs, others, run_cfg, pc,
                     inner_rect, runVars>>
    ELSE /\ btn_enabled' = FALSE
         /\ save_enabled' = FALSE
         /\ runs' = runs + 1
         /\ IF pc = "idle"
            THEN /\ pc' = "run"
                 /\ run_cfg' = c
                 /\ handled' = "none"
                 /\ inner_rect' = NoRect
                 /\ loaded_stickers' = <<>> /\ perimeter_positions' = <<>>
                 /\ placed_stickers' = <<>> /\ attempt' = 0 /\ sub' = 0
                 /\ cur' = NoSticker /\ found' = FALSE /\ canvas' = FALSE
                 /\ result' = "unset" /\ result_size' = <<>> /\ signal' = None
                 /\ layers' = <<>> /\ last_k' = 0 /\ probe' = NoProbe
                 /\ UNCHANGED others
            ELSE /\ others' = others + 1
                 /\ UNCHANGED <<run_cfg, pc, inner_rect, runVars, handled>>

StartsThread(c) == c.sticker_dir \notin {"", "missing"}

\* SettingsPanel.on_settings_changed, with the generate_frame it requests
OnSettingsChanged ==
    /\ changes < MaxChanges
    /\ \E c \in WidgetEdits(cfg) :
         /\ (c.preview_auto /\ StartsThread(c)) => runs < MaxRuns
         /\ cfg' = c
         /\ changes' = changes + 1
         /\ IF c.preview_auto
            THEN GenerateFrame(c)
            ELSE UNCHANGED <<btn_enabled, save_enabled, handled, runs, others, run_cfg,
                             pc, inner_rect, runVars>>
    /\ UNCHANGED <<fs, first_run, current_image, rectVars, validVars, posVars,
                   n_positions, densVars>>

\* generate_btn.clicked -> generate_requested -> generate_frame
ClickGenerate ==
    /\ btn_enabled
    /\ StartsThread(cfg) => runs < MaxRuns
    /\ GenerateFrame(cfg)
    /\ UNCHANGED <<cfg, fs, changes, first_run, current_image, rectVars, validVars,
                   posVars, n_positions, densVars>>

OnGenerationDone_errorkeepsdisabled ==
    /\ pc = "finished"
    /\ btn_enabled' = (signal = "generation_complete")
    /\ IF signal = "generation_complete"
       THEN current_image' = TRUE /\ save_enabled' = TRUE /\ handled' = "complete"
       ELSE handled' = "error" /\ UNCHANGED <<current_image, save_enabled>>
    /\ first_run' = IF first_run = <<>> /\ changes = 0
                    THEN <<[placed |-> placed_stickers, result |-> result]>>
                    ELSE first_run
    /\ pc' = "idle"
    /\ UNCHANGED <<cfg, fs, inner_rect, runVars, run_cfg, changes, runs, others,
                   rectVars, validVars, posVars, n_positions, densVars>>

\* on_generation_complete / on_generation_error for the followed thread's signal
OnGenerationDone ==
    /\ pc = "finished"
    /\ btn_enabled' = TRUE
    /\ IF signal = "generation_complete"
       THEN current_image' = TRUE /\ save_enabled' = TRUE /\ handled' = "complete"
       ELSE handled' = "error" /\ UNCHANGED <<current_image, save_enabled>>
    /\ first_run' = IF first_run = <<>> /\ changes = 0
                    THEN <<[placed |-> placed_stickers, result |-> result]>>
                    ELSE first_run
    /\ pc' = "idle"
    /\ UNCHANGED <<cfg, fs, inner_rect, runVars, run_cfg, changes, runs, others,
                   rectVars, validVars, posVars, n_positions, densVars>>

\* the same handlers for the signal of a thread that is not followed
OtherDone ==
    /\ others > 0
    /\ others' = others - 1
    /\ btn_enabled' = TRUE
    /\ \/ current_image' = TRUE /\ save_enabled' = TRUE
       \/ UNCHANGED <<current_image, save_enabled>>
    /\ UNCHANGED <<cfg, fs, pc, inner_rect, runVars, run_cfg, changes, runs, first_run,
                   handled, rectVars, validVars, posVars, n_positions, densVars>>

NextApp ==
    \/ OnSettingsChanged
    \/ ClickGenerate
    \/ Construct
    \/ GenerateEnter
    \/ AttemptStart
    \/ SubAttempt
    \/ EndAttempt
    \/ Finalize
    \/ ThreadEmit
    \/ OnGenerationDone
    \/ OtherDone

SpecApp == InitApp /\ [][NextApp]_vars

---------------------------------------------------------------------------
(* SpecAppLive: the same window under the scheduling the program runs on.   *)
(* A started QThread keeps running until run() returns, and the Qt event    *)
(* loop delivers every queued signal to its slot; the user's clicks and     *)
(* edits are under no obligation.                                           *)

\* the sessions followed: the configuration the panel holds and the directory's files
LiveScenarios ==
    { [config |-> AppConfig, files |-> Square],
      [config |-> [AppConfig EXCEPT !.preview_auto = FALSE], files |-> Square],
      \* an empty directory: generate returns None
      [config |-> AppConfig, files |-> <<>>],
      \* min_sticker_size > max_sticker_size: generate raises
      [config |-> [AppConfig EXCEPT !.min_sticker_size = 3], files |-> Square],
      \* a one-pixel border on the bottom side: the constructor raises
      [config |-> [AppConfig EXCEPT !.border_width = 1, !.border_sides = "BOTTOM",
                      !.preview_auto = FALSE],
       files |-> Square],
      \* a directory that does not exist: generate_frame starts nothing
      [config |-> [AppConfig EXCEPT !.sticker_dir = "missing"], files |-> <<>>] }

InitAppLive ==
    /\ IdleRun /\ IdleRect /\ IdleValid /\ IdlePos /\ IdleDens
    /\ n_positions = 0
    /\ \E sc \in LiveScenarios : cfg = sc.config /\ fs = sc.files
    /\ pc = "idle"
    /\ inner_rect = NoRect
    /\ run_cfg = NoConfig /\ changes = 0 /\ runs = 0 /\ first_run = <<>>
    /\ btn_enabled = TRUE /\ others = 0
    /\ save_enabled = FALSE /\ current_image = FALSE /\ handled = "none"

\* one step of GenerationThread.run
ThreadStep ==
    \/ Construct
    \/ GenerateEnter
    \/ AttemptStart
    \/ SubAttempt
    \/ EndAttempt
    \/ Finalize
    \/ ThreadEmit

SpecAppLive ==
    /\ InitAppLive /\ [][NextApp]_vars
    /\ WF_vars(ThreadStep)
    /\ WF_vars(OnGenerationDone)
    /\ WF_vars(OtherDone)

---------------------------------------------------------------------------
(* SpecCount: CornerAlgorithm.generate_positions stepped as in             *)
(* SpecPositions, the state holding len(positions) instead of the entry.   *)

CountConfigs ==
    {PosConfig("ALL", 2, 1), PosConfig("TOP", 2, 1), PosConfig("CORNERS", 2, 1),
     PosConfig("LEFT_RIGHT", 4, 0)}

InitCount ==
    /\ IdleRun /\ IdleRect /\ IdleValid /\ IdleExt
    /\ cfg \in CountConfigs
    /\ fs = <<>>
    /\ pc = "count"
    /\ inner_rect = NoRect
    /\ alg = "CORNER"
    /\ gen_pc = "call" /\ gen_loop = 0 /\ gen_i = 0 /\ emitted = <<>>

\* one append site of the current loop: positions.append, or the roll that skips it
CountStep ==
    /\ pc = "count"
    /\ gen_pc = "loop"
    /\ \E kind \in {out.kind :
                      out \in StepOutcomes(cfg, alg, Loops(cfg, alg)[gen_loop].name, gen_i)} :
         IF kind = "raise"
         THEN gen_pc' = "raised" /\ UNCHANGED <<gen_loop, gen_i, n_positions>>
         ELSE /\ n_positions' = IF kind = "append" THEN n_positions + 1 ELSE n_positions
              /\ IF gen_i + 1 < Loops(cfg, alg)[gen_loop].count
                 THEN gen_i' = gen_i + 1 /\ UNCHANGED <<gen_loop, gen_pc>>
                 ELSE LET l == LoopFrom(Loops(cfg, alg), gen_loop + 1)
                      IN  /\ gen_i' = 0
                          /\ gen_loop' = l
                          /\ gen_pc' = IF l > Len(Loops(cfg, alg)) THEN "done" ELSE "loop"
    /\ UNCHANGED <<cfg, fs, pc, inner_rect, runVars, alg, emitted, rectVars, validVars,
                   appVars, densVars>>

NextCount == PositionsEnter \/ CountStep

SpecCount == InitCount /\ [][NextCount]_vars

---------------------------------------------------------------------------
(* SpecDensity: get_gradient_density of the generator and of the three     *)
(* algorithm classes that define it, applied to every position around a    *)
(* small template.                                                         *)

StrongFloor == 100
CornerFloor == 200
GradientJitter == 200
CornerJitter == 300

\* sqrt(d2 / m2) in thousandths, not capped, computed to the hundredth
RootThousandths(d2, m2) ==
    LET n == (10 * Thousand * d2) \div m2
        h == CHOOSE r \in 0..(4 * 100) : r * r <= n /\ (r + 1) * (r + 1) > n
    IN  10 * h

\* the ends and the middle of random.uniform(-j, j)
Jitter(j) == {-j, 0, j}

\* UniformAlgorithm.get_gradient_density: the generator's method, line for line
UniformGetGradientDensity(c, pos) == GetGradientDensity(c, pos)

GradientGetGradientDensity(c, pos) ==
    IF ~c.gradient_density THEN {Thousand}
    ELSE LET ax == Abs(pos[1] - c.W \div 2)
             ay == Abs(pos[2] - c.H \div 2)
         IN  IF c.gradient_type = "linear"
             THEN {Clamp(StrongFloor,
                         RootThousandths(4 * (ax * ax * c.H * c.H + ay * ay * c.W * c.W),
                                         c.W * c.W * c.H * c.H))}
             ELSE LET base_density == (Thousand * (ax * c.H + ay * c.W)) \div (c.W * c.H)
                  IN  {Clamp(StrongFloor, base_density + v) : v \in Jitter(GradientJitter)}

CornerGetGradientDensity(c, pos) ==
    IF ~c.gradient_density THEN {Thousand}
    ELSE LET D2(corner) == (pos[1] - corner[1]) * (pos[1] - corner[1])
                           + (pos[2] - corner[2]) * (pos[2] - corner[2])
             corners == {<<0, 0>>, <<c.W, 0>>, <<0, c.H>>, <<c.W, c.H>>}
             min2 == CHOOSE d \in {D2(k) : k \in corners} :
                        \A k \in corners : d <= D2(k)
             base == Thousand - RootThousandths(4 * min2, c.W * c.W + c.H * c.H)
         IN  IF c.gradient_type = "linear"
             THEN {Clamp(CornerFloor, base)}
             ELSE {Clamp(StrongFloor, base + v) : v \in Jitter(CornerJitter)}

\* dispatch on the instance's class; "BASE" is StickerFrameGenerator itself
DensityWeights(c, a, pos) ==
    CASE a = "UNIFORM"  -> UniformGetGradientDensity(c, pos)
      [] a = "GRADIENT" -> GradientGetGradientDensity(c, pos)
      [] a = "CORNER"   -> CornerGetGradientDensity(c, pos)
      [] OTHER          -> GetGradientDensity(c, pos)

DensConfigs ==
    {[template_set |-> TRUE, W |-> 8, H |-> 6, sticker_density |-> d,
      gradient_density |-> g, gradient_type |-> t] :
        d \in {60, 100}, g \in BOOLEAN, t \in {"linear", "radial"}}

\* positions up to three pixels outside the template
DensPositions == {<<x, y>> : x \in (-3)..11, y \in (-3)..9}

InitDensity ==
    /\ IdleRun /\ IdleRect /\ IdleValid /\ n_positions = 0 /\ IdleApp
    /\ cfg \in DensConfigs
    /\ fs = <<>>
    /\ pc = "density.call"
    /\ inner_rect = NoRect
    /\ alg \in {"BASE", "UNIFORM", "GRADIENT", "CORNER"}
    /\ gen_pc = "idle" /\ gen_loop = 0 /\ gen_i = 0 /\ emitted = <<>>
    /\ d_pos \in DensPositions
    /\ d_weight = 0

GetGradientDensityCall ==
    /\ pc = "density.call"
    /\ d_weight' \in DensityWeights(cfg, alg, d_pos)
    /\ pc' = "density.done"
    /\ UNCHANGED <<cfg, fs, inner_rect, runVars, rectVars, validVars, posVars,
                   n_positions, appVars, d_pos>>

NextDensity == GetGradientDensityCall

SpecDensity == InitDensity /\ [][NextDensity]_vars

\* C16: for every variant and position the density weight lies in [0, 1] (0..1000
\* thousandths), it is exactly 1.0 when gradient_density is off, and density * weight
\* never exceeds the configured density.
C16_WeightInUnitRange ==
    pc = "density.done" =>
        /\ d_weight >= 0 /\ d_weight <= Thousand
        /\ ~cfg.gradient_density => d_weight = Thousand
        /\ cfg.sticker_density * d_weight <= cfg.sticker_density * Thousand

\* a radial weight of GradientAlgorithm at a corner outside the template, where the
\* base density alone is above 1.0
C16_Witness ==
    /\ pc = "density.done" /\ alg = "GRADIENT"
    /\ cfg.gradient_density /\ cfg.gradient_type = "radial"
    /\ d_pos = <<-3, -3>> /\ d_weight = Thousand

---------------------------------------------------------------------------
(* Claims about one generate run (Spec) *)

Placed(i) == placed_stickers[i]

\* C1: when overlap_allowed is false, at every point of a run and in the final list,
\* no two placed stickers have footprints that _rectangles_overlap reports overlapping.
C1_NoOverlapWhenDisallowed ==
    ~cfg.overlap_allowed =>
        \A i, j \in 1..Len(placed_stickers) :
            i < j => ~RectanglesOverlap(StickerRect(Placed(i)), StickerRect(Placed(j)))

\* a finished run that placed several stickers with overlap disallowed
C1_Witness ==
    /\ pc = "returned" /\ ~cfg.overlap_allowed
    /\ Len(placed_stickers) >= 2

InGenerate == pc \in {"attempt", "search", "endattempt", "finalize"}

\* steps generate can still make: at most SubAttempts + 4 per outer iteration left
Budget == SubAttempts + 4
Rank ==
    CASE pc = "attempt"    -> (MaxAttempts - attempt) * Budget + 1
      [] pc = "search"     -> (MaxAttempts - attempt) * Budget - sub
      [] pc = "endattempt" -> (MaxAttempts - attempt - 1) * Budget + 2
      [] pc = "finalize"   -> 1
      [] OTHER             -> 0

\* C6: generate(max_attempts) terminates: every step it takes lowers a count that starts
\* at max_attempts * (SubAttempts + 4) + 1 and never goes below 0, the outer loop never
\* starts more than max_attempts iterations and no iteration draws more than 10 positions.
C6_BoundedWork ==
    [][InGenerate =>
         /\ Rank' < Rank /\ Rank' >= 0
         /\ attempt' <= MaxAttempts /\ sub' <= SubAttempts
         /\ (pc' = "search" => attempt' < MaxAttempts)]_vars

\* a run that used every outer iteration, the last one with all ten draws
C6_Witness ==
    /\ pc = "returned" /\ result = "image"
    /\ attempt = MaxAttempts /\ sub = SubAttempts

\* C7: while no source image is loaded or the template size is unset, no canvas is
\* created and nothing is drawn or placed; generate, once it has returned, has
\* returned None, and the thread's signal is generation_error.
C7_FailFast ==
    (Len(loaded_stickers) = 0 \/ ~cfg.template_set) =>
        /\ ~canvas /\ placed_stickers = <<>> /\ attempt = 0 /\ sub = 0
        /\ result \in {"unset", "None"}
        /\ pc = "returned" => result = "None"
        /\ pc = "finished" => signal = "generation_error"

\* an empty directory: generate returned None and the thread reported the error
C7_Witness ==
    /\ pc = "finished" /\ cfg.sticker_dir = "stickers" /\ fs = <<>>
    /\ result = "None" /\ signal = "generation_error"

\* no draw of generate lines 302-316 raises: randint has a range, and every source
\* scales to at least one pixel each way
NoDrawRaises ==
    /\ cfg.min_sticker_size <= cfg.max_sticker_size
    /\ \A i \in 1..Len(loaded_stickers) :
       \A size \in cfg.min_sticker_size..cfg.max_sticker_size :
       \A by_width \in BOOLEAN :
          ~ResizeRaises(ScaledSize(loaded_stickers[i], size, by_width))

ScenarioALike ==
    /\ cfg.template_set /\ Len(loaded_stickers) >= 1
    /\ cfg.sticker_density = 100 /\ cfg.overlap_allowed /\ ~cfg.gradient_density
    /\ cfg.border_sides = "ALL" /\ cfg.border_overlap = 0
    /\ cfg.W - 2 * cfg.border_width > 0 /\ cfg.H - 2 * cfg.border_width > 0
    /\ cfg.border_width >= 2

---------------------------------------------------------------------------
(* Claims about the candidate positions (SpecPositions) *)

\* within `extent` pixels of a template corner on both axes
InCornerRegion(c, p, extent) ==
    \E corner \in {<<0, 0>>, <<c.W, 0>>, <<0, c.H>>, <<c.W, c.H>>} :
        Abs(p[1] - corner[1]) <= extent /\ Abs(p[2] - corner[2]) <= extent

\* C10 as stated: with border_sides = CORNERS, every candidate any variant appends lies
\* within border_width + border_overlap pixels of a template corner on both axes.
C10_CornerCandidatesInCornerRegions ==
    (cfg.template_set /\ cfg.border_sides = "CORNERS" /\ emitted # <<>>) =>
        InCornerRegion(cfg, emitted[1], CornerSize(cfg))

---------------------------------------------------------------------------
(* Claims about the returned image and the run's lists (Spec) *)

\* C11: whenever generate has returned an image, the image's pixel dimensions equal
\* output_size, whether or not output_size differs from template_size.
C11_ImageHasOutputSize ==
    result = "image" => result_size = <<cfg.out_W, cfg.out_H>>

\* an image returned for an output_size that differs from the template size
C11_Witness ==
    /\ pc = "returned" /\ result = "image"
    /\ <<cfg.out_W, cfg.out_H>> # <<cfg.W, cfg.H>>
    /\ result_size = <<cfg.out_W, cfg.out_H>>

IsPrefix(s, t) == Len(s) <= Len(t) /\ SubSeq(t, 1, Len(s)) = s

\* C13: in every step of a generate run the placed-sticker list keeps its old value as
\* a prefix and gains at most one entry, and the list is, entry for entry and in the
\* same order, the list of stickers composited onto the canvas.
C13_AppendOnly ==
    [][/\ IsPrefix(placed_stickers, placed_stickers')
       /\ Len(placed_stickers') <= Len(placed_stickers) + 1
       /\ layers' = placed_stickers']_vars

\* a finished run whose list holds different stickers, each drawn in list order
C13_Witness ==
    /\ pc = "returned" /\ Len(placed_stickers) >= 2
    /\ placed_stickers[1] # placed_stickers[2]
    /\ layers = placed_stickers

\* C18 as stated: within the inner loop of one outer attempt no list entry is drawn
\* twice; in particular a pass never draws the entry the pass before it drew.
C18_NoEntryDrawnTwice ==
    [][(pc = "search" /\ pc' = "search" /\ sub' = sub + 1 /\ last_k # 0)
          => last_k' # last_k]_vars

\* C17 as stated: the long edge of every placed footprint, max(width, height), lies
\* in [min_sticker_size, max_sticker_size].
C17_LongEdgeWithinSizes ==
    \A i \in 1..Len(placed_stickers) :
        /\ Max(Placed(i).size[1], Placed(i).size[2]) >= cfg.min_sticker_size
        /\ Max(Placed(i).size[1], Placed(i).size[2]) <= cfg.max_sticker_size

\* the positions in the directory listing of the files that decode, and the k-th of them
DecodableAt == {i \in 1..Len(fs) : fs[i].decodable}
KthDecodable(k) == CHOOSE i \in DecodableAt : Cardinality({j \in DecodableAt : j <= i}) = k

\* C20: a missing source directory makes the constructor raise: generate is never
\* called, nothing is retried and the thread reports generation_error.  In a directory
\* that exists, a file that does not decode is skipped: the loaded set is exactly the
\* decodable files, in order, and with at least one of them (and a template size)
\* generate goes past its fail-fast test.
C20_LoadErrorClasses ==
    /\ (cfg.sticker_dir = "missing" /\ pc # "run") =>
          /\ pc \in {"raised", "finished"}
          /\ loaded_stickers = <<>> /\ result = "unset" /\ ~canvas /\ attempt = 0
          /\ pc = "finished" => signal = "generation_error"
    /\ (cfg.sticker_dir = "stickers" /\ pc # "run") =>
          /\ Len(loaded_stickers) = Cardinality(DecodableAt)
          /\ \A k \in 1..Len(loaded_stickers) :
                loaded_stickers[k] = fs[KthDecodable(k)].size
          /\ (Len(loaded_stickers) >= 1 /\ cfg.template_set /\ pc = "returned")
                => canvas /\ result = "image"

\* a directory with an undecodable file after which a decodable one was loaded and
\* placed
C20_Witness ==
    /\ pc = "returned" /\ result = "image"
    /\ \E i, j \in 1..Len(fs) : i < j /\ ~fs[i].decodable /\ fs[j].decodable
    /\ Len(loaded_stickers) >= 1 /\ Len(placed_stickers) >= 1

---------------------------------------------------------------------------
(* More claims about the candidate positions (SpecPositions) *)

\* C15 as stated: every candidate any of the four generators appends, for any
\* border_sides, has -border_overlap <= x <= W + border_overlap and
\* -border_overlap <= y <= H + border_overlap.
C15_CandidateWithinOverlap ==
    (cfg.template_set /\ emitted # <<>>) =>
        /\ -cfg.border_overlap <= emitted[1][1]
        /\ emitted[1][1] <= cfg.W + cfg.border_overlap
        /\ -cfg.border_overlap <= emitted[1][2]
        /\ emitted[1][2] <= cfg.H + cfg.border_overlap

\* C19 as stated: CornerAlgorithm.generate_positions ends with 200 candidate positions:
\* the 140 of its corner loop and 60 from its side loop.
C19_CornerTotalIsFixed ==
    (pc = "count" /\ gen_pc = "done") => n_positions = CornerTotal

---------------------------------------------------------------------------
(* Claims about the window and its worker thread (SpecApp) *)

\* the followed worker thread has been started and has not yet emitted its signal
ThreadRunning ==
    pc \in {"run", "constructed", "attempt", "search", "endattempt", "finalize",
            "returned", "raised"}

\* the fields the generator reads
Observed(c) == [c EXCEPT !.preview_auto = TRUE]

\* C14 as stated: while a GenerationThread is running, the FrameConfig it reads has
\* the value it had when the run started.
C14_ConfigFixedDuringRun ==
    ThreadRunning => Observed(cfg) = Observed(run_cfg)

\* C12 as stated: a run on the configuration and source images of an earlier run gives
\* the same placed list and the same result.
C12_SameConfigSameOutput ==
    (pc = "finished" /\ first_run # <<>> /\ changes = 0) =>
        /\ placed_stickers = first_run[1].placed
        /\ result = first_run[1].result

---------------------------------------------------------------------------
(* More claims about the validator (SpecValid) *)

\* C21: with the keep-out rectangle computed, is_position_valid returns False exactly
\* when (1) the footprint's box lies entirely beyond border_overlap pixels outside the
\* template on an axis (x + w < -overlap, x > W + overlap, and the same for y), or
\* (2) every pixel of the footprint is in the inner rectangle, or (3) overlap_allowed
\* is false and the footprint shares a pixel with a placed one; otherwise it returns True.
C21_FourStepReference ==
    pc = "valid.done" =>
        (v_result = FALSE <=>
            \/ OffCanvas(cfg, v_sticker)
            \/ FullyInside(v_sticker, inner_rect)
            \/ (~cfg.overlap_allowed /\ OverlapsPlaced(v_sticker, v_placed)))

\* a footprint rejected by step (1) alone: its left edge one pixel beyond the allowed
\* excursion on the right
C21_Witness ==
    /\ pc = "valid.done"
    /\ v_result = FALSE /\ OffCanvas(cfg, v_sticker)
    /\ ~FullyInside(v_sticker, inner_rect)
    /\ ~OverlapsPlaced(v_sticker, v_placed)
    /\ v_sticker.position[1] = cfg.W + cfg.border_overlap + 1

---------------------------------------------------------------------------
(* Claims about the strategy generate uses (Spec) *)

RECURSIVE LoopTotal(_)
LoopTotal(ls) == IF ls = <<>> THEN 0 ELSE Head(ls).count + LoopTotal(Tail(ls))

\* the lengths of the lists generate_positions of variant a can return for c: the
\* steps of its loops, of which CornerAlgorithm's side passes may each append or skip
VariantListLengths(c, a) ==
    IF a = "CORNER"
    THEN LET fixed == CornerLoops(c)[1].count
             edges == Cardinality(GetActiveSides(c) \ {"corners"})
         IN  fixed..(fixed + (CornerTotal - fixed) * edges)
    ELSE {LoopTotal(Loops(c, a))}

\* C22 as stated: the candidate list generate's attempt loop draws from is a list of
\* the variant the configuration names: it has a length that variant's
\* generate_positions can return.
C22_CandidatesOfSelectedVariant ==
    (canvas /\ pc \in {"attempt", "search", "endattempt", "finalize", "returned"}) =>
        Len(perimeter_positions) \in VariantListLengths(cfg, cfg.algorithm)

---------------------------------------------------------------------------
(* Claims about the active sides (SpecPositions) *)

\* the band of an edge: within border_width + border_overlap pixels of it, towards
\* the inside of the template, and on the template's side of the opposite half
InEdgeBand(c, p, side) ==
    CASE side = "top"    -> p[2] <= c.border_width + c.border_overlap /\ p[2] < c.H
      [] side = "bottom" -> p[2] >= c.H - c.border_width - c.border_overlap /\ p[2] > 0
      [] side = "left"   -> p[1] <= c.border_width + c.border_overlap /\ p[1] < c.W
      [] side = "right"  -> p[1] >= c.W - c.border_width - c.border_overlap /\ p[1] > 0
      [] OTHER           -> FALSE

\* C23 as stated: when border_sides carries no corners marker, every candidate any
\* variant appends lies in the band of an active edge (no corner entry is produced),
\* and nothing is appended when no side is active.
C23_OnlyActiveSides ==
    (cfg.template_set /\ emitted # <<>> /\ "corners" \notin GetActiveSides(cfg)) =>
        \E side \in GetActiveSides(cfg) : InEdgeBand(cfg, emitted[1], side)

---------------------------------------------------------------------------
(* Claims about the attempt loop (Spec) *)

\* C24: the loop halts on the first miss once something is placed.  `found` keeps the
\* outcome of the latest outer attempt until the next one starts, so: whenever the
\* loop is about to test for another attempt after at least one, that attempt placed
\* a sticker exactly if the list is non-empty (a miss with stickers placed never gets
\* here, a miss with nothing placed does); the break is taken only after a miss with
\* stickers placed; a run that returned before using every attempt ended by that
\* break, and a run that placed nothing used every attempt.
C24_HaltOnFirstMissAfterProgress ==
    /\ (pc = "attempt" /\ attempt > 0) => (found <=> Len(placed_stickers) > 0)
    /\ pc = "finalize" => (~found /\ Len(placed_stickers) > 0)
    /\ (pc = "returned" /\ result = "image" /\ attempt < MaxAttempts)
          => (~found /\ Len(placed_stickers) > 0)
    /\ (pc = "returned" /\ result = "image" /\ placed_stickers = <<>>)
          => attempt = MaxAttempts

\* a run whose first attempt missed with nothing placed and went on, whose second
\* placed a sticker and whose third missed and ended the loop
C24_Witness ==
    /\ pc = "returned" /\ result = "image"
    /\ attempt = 2 /\ Len(placed_stickers) = 1 /\ ~found

\* the position the latest pass drew, as the sticker the validator is given
Drawn(k) == [cur EXCEPT !.position = perimeter_positions[k]]

\* C25: in every pass of the inner loop the density test comes before the validator:
\* the validator is called only in a pass the test `random.random() > density * weight`
\* let through.  Every pass, skipped by the density test or not, uses one of the 10
\* sub-attempts; a skipped pass places nothing and the loop goes on; a position the
\* validator accepts is placed at once and ends the inner loop, so that an outer
\* attempt places at most one sticker; a position is passed over after the density
\* test only when the validator refuses it.
C25_DensityBeforeValidator ==
    [][/\ probe'.validated => probe'.roll_ok
       /\ pc = "search" => pc' \in {"search", "endattempt"}
       /\ pc # "search" => (placed_stickers' = placed_stickers \/ placed_stickers' = <<>>)
       /\ (pc = "search" /\ sub < SubAttempts /\ perimeter_positions # <<>>) =>
            /\ sub' = sub + 1 /\ sub' <= SubAttempts
            /\ ~probe'.roll_ok => (placed_stickers' = placed_stickers /\ pc' = "search")
            /\ Len(placed_stickers') <= Len(placed_stickers) + 1
            /\ placed_stickers' # placed_stickers
                  => (probe'.validated /\ pc' = "endattempt" /\ found')
            /\ (probe'.validated /\ placed_stickers' = placed_stickers)
                  => ~IsPositionValid(cfg, inner_rect, Drawn(last_k'), placed_stickers)
      ]_vars

\* the third pass of an attempt skipped by the density test at a position the
\* validator would have accepted
C25_Witness ==
    /\ pc = "search" /\ sub = 3 /\ last_k # 0
    /\ ~probe.roll_ok /\ ~probe.validated
    /\ IsPositionValid(cfg, inner_rect, Drawn(last_k), placed_stickers)

---------------------------------------------------------------------------
(* More claims about the zone calculator (SpecZone) *)

\* the template inset by b on all four sides
Inset(c, b) == <<b, b, c.W - b, c.H - b>>

\* C26 as stated: calculate_sticker_zone sets the inner rectangle to the template inset
\* by border_width when W - 2 * border and H - 2 * border are both positive; otherwise
\* its width is max(10, W - 20), its height max(10, H - 20), and it is the template
\* inset by floor(min(W - width, H - height) / 2) on all four sides.
C26_ZoneIsAnInset ==
    (pc = "zone.done" /\ cfg.template_set) =>
        IF cfg.W - 2 * cfg.border_width > 0 /\ cfg.H - 2 * cfg.border_width > 0
        THEN inner_rect = Inset(cfg, cfg.border_width)
        ELSE LET innerW == Max(FallbackInner, cfg.W - FallbackMargin)
                 innerH == Max(FallbackInner, cfg.H - FallbackMargin)
                 border == Min(cfg.W - innerW, cfg.H - innerH) \div 2
             IN  /\ inner_rect[3] - inner_rect[1] = innerW
                 /\ inner_rect[4] - inner_rect[2] = innerH
                 /\ inner_rect = Inset(cfg, border)

\* C27 as stated: the inner rectangle calculate_sticker_zone sets lies inside the
\* template, 0 <= left < right <= W and 0 <= top < bottom <= H, for every template of
\* positive dimensions and every border width >= 1, the fallback branch included.
C27_ZoneInsideTemplate ==
    (pc = "zone.done" /\ cfg.template_set) =>
        /\ 0 <= inner_rect[1] /\ inner_rect[1] < inner_rect[3] /\ inner_rect[3] <= cfg.W
        /\ 0 <= inner_rect[2] /\ inner_rect[2] < inner_rect[4] /\ inner_rect[4] <= cfg.H

---------------------------------------------------------------------------
(* Claims about the random ranges of the generators (SpecPositions) *)

\* C28 as stated: generate_positions of no variant raises: every range it draws a
\* coordinate from with random.randint is non-empty, for every border_sides value,
\* border width >= 1 and border_overlap >= 0.
C28_PositionsNeverRaise ==
    pc = "positions" => gen_pc # "raised"

---------------------------------------------------------------------------
(* More claims about the window and its worker threads (SpecApp) *)

\* threads generate_frame has started whose completion handler has not run yet
InFlight == (IF pc = "idle" THEN 0 ELSE 1) + others

\* C29 as stated: from the start of a GenerationThread until its completion or error
\* handler has run, no click and no settings change starts another thread: at most
\* one thread is in flight.
C29_SingleThreadInFlight ==
    InFlight <= 1

=============================================================================
